---------------------------- MODULE Spec2Model ----------------------------
(***************************************************************************)
(* Model of the /api/comment route of code-commentor:                      *)
(*   src/src/app/api/comment/route.ts, the handler that starts at line 267 *)
(*   (rate limiter, validation, upstream call, JSON recovery, error map),  *)
(*   and of the page that calls it: src/unnamed/part_000, handleSubmit.    *)
(* The handler is an async function: it runs in three non-suspending       *)
(* segments separated by its two awaits (request.json(), generateContent). *)
(***************************************************************************)
EXTENDS Integers, Sequences, FiniteSets, TLC

VARIABLES
    rateLimiter,  \* the rateLimiter map: client id -> [count, resetTime]
    env,          \* process.env: GEMINI_API_KEY set or not, NODE_ENV
    now,          \* Date.now()
    ticks,        \* how often the clock has advanced
    req,          \* the POST calls in flight: where each is suspended, its locals
    last,         \* the response returned last, with the request it answers
    lastCheck,    \* the last call of checkRateLimit: its arguments and result
    calls,        \* per client: checkRateLimit calls since its window began
    passed,       \* per client: calls allowed since its window began
    sample,       \* an upstream text under test: [pre, obj, post]
    outcome,      \* what the recovery made of the sample
    client        \* the page: handleSubmit's position, React state, timer

vars == <<rateLimiter, env, now, ticks, req, last, lastCheck, calls, passed,
          sample, outcome, client>>

(***************************************************************************)
(* Program constants.                                                      *)
(***************************************************************************)
RATE_LIMIT == 10

WINDOW_MS == 15 * 60 * 1000

MaxCodeLength == 3000

(***************************************************************************)
(* Bounds of the model.                                                    *)
(***************************************************************************)
MaxTicks == 1

MaxCalls == 12

NReq == 2

MaxLen == 3

MaxSubmits == 2

(***************************************************************************)
(* getRealIP: the first entry of x-forwarded-for, else x-real-ip, else the *)
(* literal "unknown". headers.forwarded is the x-forwarded-for value as    *)
(* its list of comma-separated (trimmed) entries, << >> when the header is *)
(* absent or empty; headers.realIP is "" when absent or empty (get()       *)
(* gives null or "", both falsy).                                          *)
(***************************************************************************)
getRealIP(headers) ==
    IF headers.forwarded # << >>
    THEN Head(headers.forwarded)
    ELSE IF headers.realIP # ""
         THEN headers.realIP
         ELSE "unknown"

(***************************************************************************)
(* checkRateLimit(ip) at time t on the table: the new table and the        *)
(* returned {allowed, remaining, resetTime}.                               *)
(***************************************************************************)
SetWindow(table, ip, w) ==
    [x \in (DOMAIN table) \cup {ip} |-> IF x = ip THEN w ELSE table[x]]

checkRateLimitResetAtEqual(ip, t, table) ==
    IF ip \notin DOMAIN table \/ t >= table[ip].resetTime
    THEN [table |-> SetWindow(table, ip, [count |-> 1, resetTime |-> t + WINDOW_MS]),
          result |-> [allowed |-> TRUE, remaining |-> RATE_LIMIT - 1,
                      resetTime |-> t + WINDOW_MS]]
    ELSE IF table[ip].count >= RATE_LIMIT
    THEN [table |-> table,
          result |-> [allowed |-> FALSE, remaining |-> 0,
                      resetTime |-> table[ip].resetTime]]
    ELSE [table |-> SetWindow(table, ip, [table[ip] EXCEPT !.count = @ + 1]),
          result |-> [allowed |-> TRUE,
                      remaining |-> RATE_LIMIT - (table[ip].count + 1),
                      resetTime |-> table[ip].resetTime]]

checkRateLimitOffByOne(ip, t, table) ==
    IF ip \notin DOMAIN table \/ t > table[ip].resetTime
    THEN [table |-> SetWindow(table, ip, [count |-> 1, resetTime |-> t + WINDOW_MS]),
          result |-> [allowed |-> TRUE, remaining |-> RATE_LIMIT - 1,
                      resetTime |-> t + WINDOW_MS]]
    ELSE IF table[ip].count > RATE_LIMIT
    THEN [table |-> table,
          result |-> [allowed |-> FALSE, remaining |-> 0,
                      resetTime |-> table[ip].resetTime]]
    ELSE [table |-> SetWindow(table, ip, [table[ip] EXCEPT !.count = @ + 1]),
          result |-> [allowed |-> TRUE,
                      remaining |-> RATE_LIMIT - (table[ip].count + 1),
                      resetTime |-> table[ip].resetTime]]

checkRateLimitPenalising(ip, t, table) ==
    IF ip \notin DOMAIN table \/ t > table[ip].resetTime
    THEN [table |-> SetWindow(table, ip, [count |-> 1, resetTime |-> t + WINDOW_MS]),
          result |-> [allowed |-> TRUE, remaining |-> RATE_LIMIT - 1,
                      resetTime |-> t + WINDOW_MS]]
    ELSE IF table[ip].count >= RATE_LIMIT
    THEN [table |-> SetWindow(table, ip, [count |-> RATE_LIMIT,
                                          resetTime |-> t + WINDOW_MS]),
          result |-> [allowed |-> FALSE, remaining |-> 0,
                      resetTime |-> t + WINDOW_MS]]
    ELSE [table |-> SetWindow(table, ip, [table[ip] EXCEPT !.count = @ + 1]),
          result |-> [allowed |-> TRUE,
                      remaining |-> RATE_LIMIT - (table[ip].count + 1),
                      resetTime |-> table[ip].resetTime]]

checkRateLimitNotCounting(ip, t, table) ==
    IF ip \notin DOMAIN table \/ t > table[ip].resetTime
    THEN [table |-> SetWindow(table, ip, [count |-> 1, resetTime |-> t + WINDOW_MS]),
          result |-> [allowed |-> TRUE, remaining |-> RATE_LIMIT - 1,
                      resetTime |-> t + WINDOW_MS]]
    ELSE IF table[ip].count >= RATE_LIMIT
    THEN [table |-> table,
          result |-> [allowed |-> FALSE, remaining |-> 0,
                      resetTime |-> table[ip].resetTime]]
    ELSE [table |-> table,
          result |-> [allowed |-> TRUE,
                      remaining |-> RATE_LIMIT - (table[ip].count + 1),
                      resetTime |-> table[ip].resetTime]]

checkRateLimit(ip, t, table) ==
    IF ip \notin DOMAIN table \/ t > table[ip].resetTime
    THEN [table |-> SetWindow(table, ip, [count |-> 1, resetTime |-> t + WINDOW_MS]),
          result |-> [allowed |-> TRUE, remaining |-> RATE_LIMIT - 1,
                      resetTime |-> t + WINDOW_MS]]
    ELSE IF table[ip].count >= RATE_LIMIT
    THEN [table |-> table,
          result |-> [allowed |-> FALSE, remaining |-> 0,
                      resetTime |-> table[ip].resetTime]]
    ELSE [table |-> SetWindow(table, ip, [table[ip] EXCEPT !.count = @ + 1]),
          result |-> [allowed |-> TRUE,
                      remaining |-> RATE_LIMIT - (table[ip].count + 1),
                      resetTime |-> table[ip].resetTime]]

(***************************************************************************)
(* JavaScript values of the request body. A value is [t, len, key]: t its  *)
(* typeof-like tag, len the length of a string or array (the value of a    *)
(* number), key the text of a personality string. The text of the code is  *)
(* not inspected by the handler, only its length.                          *)
(***************************************************************************)
Undefined == [t |-> "undefined", len |-> 0, key |-> ""]

Str(key, n) == [t |-> "string", len |-> n, key |-> key]

Num(n) == [t |-> "number", len |-> n, key |-> ""]

Arr(n) == [t |-> "array", len |-> n, key |-> ""]

\* !v
Falsy(v) ==
    \/ v.t \in {"undefined", "null"}
    \/ v.t = "string" /\ v.len = 0
    \/ v.t = "number" /\ v.len = 0

\* v.length > n, false when v.length is undefined
LengthGreater(v, n) == v.t \in {"string", "array"} /\ v.len > n

\* typeof v !== 'string'
NotString(v) == v.t # "string"

(***************************************************************************)
(* personalityPrompts: the lookup table of the five rubrics. A key outside *)
(* the table reads as undefined, which the template prints as "undefined". *)
(***************************************************************************)
personalityKeys == {"mentor", "minimalist", "intern", "security", "performance"}

personalityPrompts(key) ==
    IF key \in personalityKeys THEN key ELSE "undefined"

\* fullPrompt: the template filled with the rubric and the code
fullPrompt(code, personality) ==
    [style |-> personalityPrompts(personality.key), codeLen |-> code.len]

(***************************************************************************)
(* Errors. An error is [isError, marks]: whether it is an instance of      *)
(* Error, and which of the substrings the catch block looks for occur in   *)
(* its message.                                                            *)
(***************************************************************************)
Marks == {"429", "quota", "503", "overloaded", "JSON", "malformed"}

Err(marks) == [isError |-> TRUE, marks |-> marks]

\* new Error("AI returned malformed JSON response")
MalformedError == Err({"JSON", "malformed"})

\* new Error("Invalid response structure from AI service")
StructureError == Err({})

\* TypeError: cannot destructure property 'code' of null
DestructureError == Err({})

(***************************************************************************)
(* Responses: [status, error, minutes, json, headers, contentType].        *)
(* headers maps the rate-limit header names to their numbers; json is the  *)
(* 200 body.                                                               *)
(***************************************************************************)
NoJson == [t |-> "undefined", str |-> << >>, fields |-> << >>]

ErrorResponse(status, msg) ==
    [status |-> status, error |-> msg, minutes |-> 0, json |-> NoJson,
     headers |-> << >>, contentType |-> "text/plain"]

\* Math.ceil(a / b) for b > 0
Ceil(a, b) == -((-a) \div b)

H4 == {"X-RateLimit-Limit", "X-RateLimit-Remaining", "X-RateLimit-Reset", "Retry-After"}

H3 == {"X-RateLimit-Limit", "X-RateLimit-Remaining", "X-RateLimit-Reset"}

\* lines 272-285
RateLimitResponse(rateCheck, t) ==
    LET resetTimeSeconds == Ceil(rateCheck.resetTime - t, 1000) IN
    [status |-> 429, error |-> "Rate limit exceeded", 
     minutes |-> Ceil(resetTimeSeconds, 60), json |-> NoJson,
     headers |-> [h \in H4 |->
                    CASE h = "X-RateLimit-Limit" -> RATE_LIMIT
                      [] h = "X-RateLimit-Remaining" -> 0
                      [] h = "X-RateLimit-Reset" -> rateCheck.resetTime
                      [] h = "Retry-After" -> resetTimeSeconds],
     contentType |-> "text/plain"]

\* lines 366-374
OkResponse(parsedJson, rateCheck) ==
    [status |-> 200, error |-> "", minutes |-> 0, json |-> parsedJson,
     headers |-> [h \in H3 |->
                    CASE h = "X-RateLimit-Limit" -> RATE_LIMIT
                      [] h = "X-RateLimit-Remaining" -> rateCheck.remaining
                      [] h = "X-RateLimit-Reset" -> rateCheck.resetTime],
     contentType |-> "application/json"]

CatchResponseLeaking(error) ==
    IF error.isError /\ ({"429", "quota"} \cap error.marks # {})
    THEN ErrorResponse(429, "API quota exceeded")
    ELSE IF error.isError /\ ({"503", "overloaded"} \cap error.marks # {})
    THEN ErrorResponse(503, "AI service is temporarily overloaded")
    ELSE IF error.isError /\ ({"JSON", "malformed"} \cap error.marks # {})
    THEN ErrorResponse(502, IF "JSON" \in error.marks
                            THEN "Unexpected token in JSON"
                            ELSE "AI returned malformed output")
    ELSE ErrorResponse(500, "An error occurred while processing your request")

\* lines 376-404: the catch block
CatchResponse(error) ==
    IF error.isError /\ ({"429", "quota"} \cap error.marks # {})
    THEN ErrorResponse(429, "API quota exceeded")
    ELSE IF error.isError /\ ({"503", "overloaded"} \cap error.marks # {})
    THEN ErrorResponse(503, "AI service is temporarily overloaded")
    ELSE IF error.isError /\ ({"JSON", "malformed"} \cap error.marks # {})
    THEN ErrorResponse(502, "AI returned invalid response format")
    ELSE ErrorResponse(500, "An error occurred while processing your request")

(***************************************************************************)
(* Text. A text is a sequence of characters; the characters that matter    *)
(* are "{", "}", ":", ",", the double quote, the backslash, the space, the *)
(* raw newline "NL", the letters "n" and "x", the digit "1"; the words     *)
(* null, language and commentedCode are written as one character each.     *)
(***************************************************************************)
QUOTE == "\""

BSL == "\\"

NL == "NL"

Failed == [ok |-> FALSE, val |-> << >>, next |-> 0]

\* JSON white space
IsWs(c) == c \in {" ", NL}

RECURSIVE SkipWs(_, _)
SkipWs(s, i) == IF i <= Len(s) /\ IsWs(s[i]) THEN SkipWs(s, i + 1) ELSE i

\* the character an escape sequence \c stands for
Unescape(c) == IF c = "n" THEN NL ELSE c

(***************************************************************************)
(* JSON.parse, for the JSON made of objects whose members are strings,     *)
(* numbers or null, and of those scalars alone. ScanString reads a string  *)
(* body from i (past the opening quote): a raw control character or a      *)
(* backslash not followed by an escape character is a syntax error.        *)
(***************************************************************************)
RECURSIVE ScanString(_, _, _)
ScanString(s, i, acc) ==
    IF i > Len(s) THEN Failed
    ELSE IF s[i] = QUOTE THEN [ok |-> TRUE, val |-> acc, next |-> i + 1]
    ELSE IF s[i] = BSL
    THEN IF i + 1 <= Len(s) /\ s[i + 1] \in {QUOTE, BSL, "n"}
         THEN ScanString(s, i + 2, Append(acc, Unescape(s[i + 1])))
         ELSE Failed
    ELSE IF s[i] = NL THEN Failed
    ELSE ScanString(s, i + 1, Append(acc, s[i]))

RECURSIVE ScanDigits(_, _, _)
ScanDigits(s, i, acc) ==
    IF i <= Len(s) /\ s[i] = "1" THEN ScanDigits(s, i + 1, Append(acc, "1"))
    ELSE [ok |-> TRUE, val |-> acc, next |-> i]

NoScalar == [ok |-> FALSE, v |-> [t |-> "undefined", str |-> << >>], next |-> 0]

Scalar(t, r) ==
    IF r.ok THEN [ok |-> TRUE, v |-> [t |-> t, str |-> r.val], next |-> r.next]
    ELSE NoScalar

\* a string, a number or null at i
ParseScalar(s, i) ==
    IF i > Len(s) THEN NoScalar
    ELSE IF s[i] = QUOTE THEN Scalar("string", ScanString(s, i + 1, << >>))
    ELSE IF s[i] = "1" THEN Scalar("number", ScanDigits(s, i, << >>))
    ELSE IF s[i] = "null"
    THEN [ok |-> TRUE, v |-> [t |-> "null", str |-> << >>], next |-> i + 1]
    ELSE NoScalar

NoObject == [ok |-> FALSE, fields |-> << >>, next |-> 0]

\* a later member of the same name replaces the earlier one
SetField(f, k, v) == [x \in (DOMAIN f) \cup {k} |-> IF x = k THEN v ELSE f[x]]

\* the members of an object from i (a key is expected at i), up to its "}":
\* key, ":", value, then "," and the next member, or "}"
RECURSIVE ParseMembers(_, _, _)
MemberSep(s, g, m) ==
    IF m > Len(s) THEN NoObject
    ELSE IF s[m] = "," THEN ParseMembers(s, SkipWs(s, m + 1), g)
    ELSE IF s[m] = "}" THEN [ok |-> TRUE, fields |-> g, next |-> m + 1]
    ELSE NoObject

MemberValue(s, f, k, val) ==
    IF ~val.ok THEN NoObject
    ELSE MemberSep(s, SetField(f, k, val.v), SkipWs(s, val.next))

MemberColon(s, f, k, i) ==
    IF i > Len(s) \/ s[i] # ":" THEN NoObject
    ELSE MemberValue(s, f, k, ParseScalar(s, SkipWs(s, i + 1)))

MemberKey(s, f, key) ==
    IF ~key.ok THEN NoObject
    ELSE MemberColon(s, f, key.val, SkipWs(s, key.next))

ParseMembers(s, i, f) ==
    IF i > Len(s) \/ s[i] # QUOTE THEN NoObject
    ELSE MemberKey(s, f, ScanString(s, i + 1, << >>))

\* the object whose "{" has been read, members expected from j
ParseObject(s, j) ==
    IF j <= Len(s) /\ s[j] = "}"
    THEN [ok |-> TRUE, fields |-> << >>, next |-> j + 1]
    ELSE ParseMembers(s, j, << >>)

NoValue == [ok |-> FALSE, v |-> [t |-> "undefined", str |-> << >>, fields |-> << >>]]

\* nothing but white space may follow the value
ObjectValue(s, o) ==
    IF o.ok /\ SkipWs(s, o.next) = Len(s) + 1
    THEN [ok |-> TRUE, v |-> [t |-> "object", str |-> << >>, fields |-> o.fields]]
    ELSE NoValue

ScalarValue(s, r) ==
    IF r.ok /\ SkipWs(s, r.next) = Len(s) + 1
    THEN [ok |-> TRUE, v |-> [t |-> r.v.t, str |-> r.v.str, fields |-> << >>]]
    ELSE NoValue

ParseValue(s, i) ==
    IF i > Len(s) THEN NoValue
    ELSE IF s[i] = "{" THEN ObjectValue(s, ParseObject(s, SkipWs(s, i + 1)))
    ELSE ScalarValue(s, ParseScalar(s, i))

JSONparse(s) == ParseValue(s, SkipWs(s, 1))

(***************************************************************************)
(* String.indexOf, lastIndexOf and substring, with JavaScript's 0-based    *)
(* indices (-1: not found; substring swaps its arguments when the first is *)
(* the larger).                                                            *)
(***************************************************************************)
indexOf(s, c) ==
    IF \E i \in 1..Len(s) : s[i] = c
    THEN (CHOOSE i \in 1..Len(s) : s[i] = c /\ \A j \in 1..(i - 1) : s[j] # c) - 1
    ELSE -1

lastIndexOf(s, c) ==
    IF \E i \in 1..Len(s) : s[i] = c
    THEN (CHOOSE i \in 1..Len(s) : s[i] = c /\ \A j \in (i + 1)..Len(s) : s[j] # c) - 1
    ELSE -1

Min(a, b) == IF a <= b THEN a ELSE b

Max(a, b) == IF a >= b THEN a ELSE b

substring(s, a, b) ==
    LET x == Max(0, Min(a, Len(s)))
        y == Max(0, Min(b, Len(s))) IN
    SubSeq(s, Min(x, y) + 1, Max(x, y))

(***************************************************************************)
(* route.ts 341-364: the recovery of the upstream text. [ok, v, error,     *)
(* logs]: the parsed value, or the error thrown to the catch block, and    *)
(* what console.error wrote on the way.                                    *)
(***************************************************************************)
Thrown(e, logs) == [ok |-> FALSE, v |-> NoJson, error |-> e, logs |-> logs]

Parsed(v) == [ok |-> TRUE, v |-> v, error |-> Err({}), logs |-> {}]

\* lines 355-359: both attempts failed
BothFailed ==
    Thrown(MalformedError, {"Both JSON parsing attempts failed", "Response text"})

\* lines 354-359
SecondParse(second) == IF second.ok THEN Parsed(second.v) ELSE BothFailed

extractDroppingBrace(responseText, startIndex, endIndex) ==
    IF startIndex = -1 \/ endIndex = -1 THEN BothFailed
    ELSE SecondParse(JSONparse(substring(responseText, startIndex, endIndex)))

\* lines 346-354, with startIndex and endIndex found
extract(responseText, startIndex, endIndex) ==
    IF startIndex = -1 \/ endIndex = -1 THEN BothFailed
    ELSE SecondParse(JSONparse(substring(responseText, startIndex, endIndex + 1)))

\* lines 345-359: the fallback, from the first "{" to the last "}"
extractAndParse(responseText) ==
    extract(responseText, indexOf(responseText, "{"), lastIndexOf(responseText, "}"))

\* lines 342-344
FirstParse(responseText, first) ==
    IF first.ok THEN Parsed(first.v) ELSE extractAndParse(responseText)

\* lines 341-360
parseResponseText(responseText) == FirstParse(responseText, JSONparse(responseText))

\* parsedJson.commentedCode is falsy
NoCommentedCode(v) ==
    \/ <<"commentedCode">> \notin DOMAIN v.fields
    \/ v.fields[<<"commentedCode">>].t = "null"
    \/ v.fields[<<"commentedCode">>].t = "string"
         /\ v.fields[<<"commentedCode">>].str = << >>

\* the condition of line 362
InvalidStructure(v) ==
    v.t = "null" \/ v.t # "object" \/ NoCommentedCode(v)

\* lines 362-364
CheckStructure(p) ==
    IF ~p.ok THEN p
    ELSE IF InvalidStructure(p.v) THEN Thrown(StructureError, {})
    ELSE p

\* lines 339-364, from the upstream text to the parsed value or the thrown error
recoverResult(responseText) == CheckStructure(parseResponseText(responseText))

(***************************************************************************)
(* POST, lines 287-337, as a function of the settled request.json() and of *)
(* the API key: the segment throws, returns a response, or reaches the     *)
(* await of generateContent (the one place the provider is invoked).       *)
(***************************************************************************)
Raise(e) == [kind |-> "throw", error |-> e, resp |-> ErrorResponse(0, ""),
             prompt |-> [style |-> "", codeLen |-> 0], upstreamCalls |-> 0]

Return(resp, prompt, n) ==
    [kind |-> "return", error |-> Err({}), resp |-> resp, prompt |-> prompt,
     upstreamCalls |-> n]

Await(prompt) ==
    [kind |-> "await", error |-> Err({}), resp |-> ErrorResponse(0, ""),
     prompt |-> prompt, upstreamCalls |-> 1]

afterJsonKeyLate(body, apiKey) ==
    LET code == IF body.kind = "object" THEN body.code ELSE Undefined
        personality == IF body.kind = "object" THEN body.personality ELSE Undefined
        prompt == fullPrompt(code, personality)
        none == [style |-> "", codeLen |-> 0]
    IN
    IF body.kind = "unparseable" THEN Raise(Err(body.marks))
    ELSE IF body.kind = "null" THEN Raise(DestructureError)
    ELSE IF Falsy(code) \/ Falsy(personality)
    THEN Return(ErrorResponse(400, "Missing code or personality"), none, 0)
    ELSE IF LengthGreater(code, MaxCodeLength)
    THEN Return(ErrorResponse(400, "Code snippet too long"), none, 0)
    ELSE IF NotString(code) \/ NotString(personality)
    THEN Return(ErrorResponse(400, "Invalid input format"), none, 0)
    ELSE IF ~apiKey
    THEN Return(ErrorResponse(500, "API key not configured"), prompt, 1)
    ELSE Await(prompt)

afterJson(body, apiKey) ==
    LET code == IF body.kind = "object" THEN body.code ELSE Undefined
        personality == IF body.kind = "object" THEN body.personality ELSE Undefined
        prompt == fullPrompt(code, personality)
        none == [style |-> "", codeLen |-> 0]
    IN
    IF body.kind = "unparseable" THEN Raise(Err(body.marks))
    ELSE IF body.kind = "null" THEN Raise(DestructureError)
    ELSE IF Falsy(code) \/ Falsy(personality)
    THEN Return(ErrorResponse(400, "Missing code or personality"), none, 0)
    ELSE IF LengthGreater(code, MaxCodeLength)
    THEN Return(ErrorResponse(400, "Code snippet too long"), none, 0)
    ELSE IF NotString(code) \/ NotString(personality)
    THEN Return(ErrorResponse(400, "Invalid input format"), none, 0)
    ELSE IF ~apiKey
    THEN Return(ErrorResponse(500, "API key not configured"), prompt, 0)
    ELSE Await(prompt)

(***************************************************************************)
(* The state machine.                                                      *)
(***************************************************************************)
NoBody == [kind |-> "none", code |-> Undefined, personality |-> Undefined, marks |-> {}]

NoUpstream == [kind |-> "none", err |-> Err({}), text |-> << >>]

NoCheck == [allowed |-> FALSE, remaining |-> 0, resetTime |-> 0]

NoPrompt == [style |-> "", codeLen |-> 0]

Idle == [pc |-> "idle", ip |-> "", rateCheck |-> NoCheck, prompt |-> NoPrompt,
         body |-> NoBody, upstreamCalls |-> 0, since |-> 0]

NoResponse == ErrorResponse(0, "")

NoSample == [pre |-> << >>, obj |-> << >>, post |-> << >>]

NoOutcome == [done |-> FALSE, direct |-> NoValue, fallback |-> Thrown(Err({}), {}),
              parsed |-> Thrown(Err({}), {}), pipeline |-> Thrown(Err({}), {})]

Clients == {"a", "unknown"}

(***************************************************************************)
(* The page, part_000 lines 7-19: its React state, and where handleSubmit  *)
(* is suspended. timer is the setTimeout of line 50; wire[r] is the body   *)
(* sent with the request that POST call r serves, slot the POST call that  *)
(* serves the pending fetch, inbox the response that has arrived for it.   *)
(* submits, fetches, posts and upstreams count the submissions, the calls  *)
(* of fetch, the POST calls they caused and the provider calls of those.   *)
(***************************************************************************)
TIMEOUT_MS == 60000

Shown(kind, message, minutes) == [kind |-> kind, message |-> message, minutes |-> minutes]

NoTimer == [armed |-> FALSE, at |-> 0]

NoClient ==
    [pc |-> "idle", isLoading |-> FALSE, language |-> "plaintext",
     result |-> Shown("placeholder", "", 0), timer |-> NoTimer,
     body |-> NoBody, sent |-> FALSE, slot |-> 0, inbox |-> ErrorResponse(0, ""),
     wire |-> [r \in 1..NReq |-> NoBody],
     submits |-> 0, fetches |-> 0, posts |-> 0, upstreams |-> 0]

InitCommon ==
    /\ rateLimiter = << >>
    /\ now = 0
    /\ ticks = 0
    /\ last = [ip |-> "", body |-> NoBody, upstream |-> NoUpstream,
               upstreamCalls |-> 0, prompt |-> NoPrompt, logs |-> {},
               rateCheck |-> NoCheck, resp |-> NoResponse]
    /\ lastCheck = [ip |-> "", at |-> 0, had |-> FALSE, oldCount |-> 0,
                    oldReset |-> 0, k |-> 0, result |-> NoCheck]
    /\ calls = [c \in Clients |-> 0]
    /\ passed = [c \in Clients |-> 0]
    /\ client = NoClient

\* the request r ends with the response resp
Respond(r, resp, body, upstream, upstreamCalls, prompt, logs) ==
    /\ last' = [ip |-> req[r].ip, body |-> body, upstream |-> upstream,
                upstreamCalls |-> upstreamCalls, prompt |-> prompt,
                logs |-> logs, rateCheck |-> req[r].rateCheck, resp |-> resp]
    /\ req' = [req EXCEPT ![r] = Idle]

\* console.error("API Error:", error) of the catch block, lines 377-379
CatchLogs == IF env.NODE_ENV # "production" THEN {"API Error"} ELSE {}

(***************************************************************************)
(* POST, lines 269-287: from the call to the await of request.json(). A    *)
(* new call takes the first free slot of req. Both reads of Date.now()     *)
(* fall in the same millisecond.                                           *)
(***************************************************************************)
POSTBegin(r, headers) ==
    LET ip == getRealIP(headers)
        had == ip \in DOMAIN rateLimiter
        fresh == IF had THEN now > rateLimiter[ip].resetTime ELSE TRUE
        c == checkRateLimit(ip, now, rateLimiter)
        rateCheck == c.result
    IN
    /\ req[r].pc = "idle"
    /\ \A q \in DOMAIN req : q < r => req[q].pc # "idle"
    /\ IF fresh THEN TRUE ELSE calls[ip] < MaxCalls
    /\ rateLimiter' = c.table
    /\ lastCheck' = [ip |-> ip, at |-> now, had |-> had,
                     oldCount |-> IF had THEN rateLimiter[ip].count ELSE 0,
                     oldReset |-> IF had THEN rateLimiter[ip].resetTime ELSE 0,
                     k |-> IF fresh THEN 1 ELSE calls[ip] + 1,
                     result |-> rateCheck]
    /\ calls' = [calls EXCEPT ![ip] = IF fresh THEN 1 ELSE @ + 1]
    /\ passed' = [passed EXCEPT ![ip] =
                    (IF fresh THEN 0 ELSE @) + (IF rateCheck.allowed THEN 1 ELSE 0)]
    /\ IF ~rateCheck.allowed
       THEN /\ last' = [ip |-> ip, body |-> NoBody, upstream |-> NoUpstream,
                        upstreamCalls |-> 0, prompt |-> NoPrompt, logs |-> {},
                        rateCheck |-> rateCheck,
                        resp |-> RateLimitResponse(rateCheck, now)]
            /\ req' = req
       ELSE /\ req' = [req EXCEPT ![r] = [Idle EXCEPT !.pc = "json", !.ip = ip,
                                                      !.rateCheck = rateCheck]]
            /\ last' = last
    /\ UNCHANGED <<env, now, ticks, sample, outcome>>

(***************************************************************************)
(* POST, lines 287-337: request.json() has settled with body; up to the    *)
(* await of generateContent. What the segment throws goes to the catch     *)
(* block of lines 376-404.                                                 *)
(***************************************************************************)
Continue(r, body, seg) ==
    IF seg.kind = "throw"
    THEN Respond(r, CatchResponse(seg.error), body, NoUpstream,
                 seg.upstreamCalls, seg.prompt, CatchLogs)
    ELSE IF seg.kind = "return"
    THEN Respond(r, seg.resp, body, NoUpstream, seg.upstreamCalls, seg.prompt, {})
    ELSE /\ req' = [req EXCEPT ![r].pc = "generate", ![r].body = body,
                               ![r].prompt = seg.prompt,
                               ![r].upstreamCalls = @ + seg.upstreamCalls,
                               ![r].since = now]
         /\ last' = last

POSTBody(r, body) ==
    /\ req[r].pc = "json"
    /\ Continue(r, body, afterJson(body, env.GEMINI_API_KEY))
    /\ UNCHANGED <<rateLimiter, env, now, ticks, lastCheck, calls, passed,
                   sample, outcome>>

(***************************************************************************)
(* POST, lines 334-404: generateContent has settled with upstream (a text, *)
(* or an error thrown by the call or by response.text()).                  *)
(***************************************************************************)
\* lines 334-364: the value to answer with, or the error for the catch block
settle(upstream) ==
    IF upstream.kind = "throw" THEN Thrown(upstream.err, {})
    ELSE recoverResult(upstream.text)

\* lines 366-404
Finish(r, upstream, rec) ==
    Respond(r,
            IF rec.ok THEN OkResponse(rec.v, req[r].rateCheck)
            ELSE CatchResponse(rec.error),
            req[r].body, upstream, req[r].upstreamCalls, req[r].prompt,
            IF rec.ok THEN {} ELSE rec.logs \cup CatchLogs)

POSTFinish(r, upstream) ==
    /\ req[r].pc = "generate"
    /\ Finish(r, upstream, settle(upstream))
    /\ UNCHANGED <<rateLimiter, env, now, ticks, lastCheck, calls, passed,
                   sample, outcome>>

\* the clock advances by d milliseconds
Tick(d) ==
    /\ ticks < MaxTicks
    /\ now' = now + d
    /\ ticks' = ticks + 1
    /\ UNCHANGED <<rateLimiter, env, req, last, lastCheck, calls, passed,
                   sample, outcome>>

\* lines 339-364 applied to the sample text
Recover ==
    LET text == sample.pre \o sample.obj \o sample.post IN
    /\ ~outcome.done
    /\ outcome' = [done |-> TRUE, direct |-> JSONparse(text),
                   fallback |-> extractAndParse(text),
                   parsed |-> parseResponseText(text),
                   pipeline |-> recoverResult(text)]
    /\ UNCHANGED <<rateLimiter, env, now, ticks, req, last, lastCheck, calls,
                   passed, sample>>

(***************************************************************************)
(* Inputs.                                                                 *)
(***************************************************************************)
Steps == {WINDOW_MS, WINDOW_MS + 1}

HeaderInputs ==
    { [forwarded |-> <<"a", "b">>, realIP |-> ""],
      [forwarded |-> <<"a">>, realIP |-> "c"],
      [forwarded |-> << >>, realIP |-> "a"],
      [forwarded |-> << >>, realIP |-> ""] }

Obj(code, personality) ==
    [kind |-> "object", code |-> code, personality |-> personality, marks |-> {}]

Body(kind) == [kind |-> kind, code |-> Undefined, personality |-> Undefined, marks |-> {}]

CodeInputs ==
    { Undefined, [Undefined EXCEPT !.t = "null"], Str("", 0), Str("", 1),
      Str("", MaxCodeLength), Str("", MaxCodeLength + 1), Num(0), Num(7),
      Arr(2), Arr(MaxCodeLength + 1) }

PersonalityInputs ==
    { Undefined, Str("", 0), Str("mentor", 6), Str("performance", 11),
      Str("pirate", 6), Num(7) }

\* an unparseable body: the SyntaxError's message names JSON, and may quote the body
Bodies ==
    { [Body("unparseable") EXCEPT !.marks = {"JSON"}],
      [Body("unparseable") EXCEPT !.marks = {"JSON", "quota"}],
      Body("null"), Body("primitive"), Body("array") }
    \cup { Obj(c, p) : c \in CodeInputs, p \in PersonalityInputs }

Throw(e) == [kind |-> "throw", err |-> e, text |-> << >>]

Text(t) == [kind |-> "text", err |-> Err({}), text |-> t]

\* {<language member>"commentedCode":<sp>"<value>"}
Render(lang, sp, value) ==
    <<"{">> \o lang \o <<QUOTE, "commentedCode", QUOTE, ":">> \o sp
            \o <<QUOTE>> \o value \o <<QUOTE, "}">>

LangX == <<QUOTE, "language", QUOTE, ":", QUOTE, "x", QUOTE, ",">>

TextInputs ==
    { Render(LangX, << >>, <<"x">>),
      Render(LangX, <<" ">>, <<"x", BSL, "n", "x">>),
      Render(LangX, << >>, <<"x", NL, "x">>),
      Render(LangX, << >>, << >>),
      Render(<< >>, << >>, <<"x">>),
      <<"x", " ">> \o Render(LangX, << >>, <<"x", BSL, "n">>) \o <<" ", "x">>,
      <<"x", " ">> \o Render(LangX, << >>, <<"x", NL>>) \o <<NL>>,
      <<"{", QUOTE, "language", QUOTE, ":", QUOTE, "x", QUOTE, "}">>,
      <<"{", QUOTE, "commentedCode", QUOTE, ":", "1", "}">>,
      <<"{", QUOTE, "commentedCode", QUOTE, ":", "null", "}">>,
      <<"{", "}">>, <<"null">>, <<"1">>, <<QUOTE, "x", QUOTE>>,
      <<"x">>, << >>, <<"}", "1", "{">>, <<"x", "{">> }

ErrorInputs ==
    { Err({}), Err({"429"}), Err({"quota"}), Err({"503"}), Err({"overloaded"}),
      Err({"JSON"}), Err({"malformed"}), Err({"429", "503"}), Err({"overloaded", "JSON"}),
      [isError |-> FALSE, marks |-> {"503"}] }

Upstreams == { Throw(e) : e \in ErrorInputs } \cup { Text(t) : t \in TextInputs }

FewBodies == { Obj(Str("", 1), Str("mentor", 6)), Obj(Str("", 1), Undefined) }

FewUpstreams == { Text(Render(LangX, << >>, <<"x">>)), Throw(Err({"503"})) }

ValueChars == {"x", "n", BSL, QUOTE, NL}

RECURSIVE Strings(_)
Strings(n) ==
    IF n = 0 THEN { << >> }
    ELSE LET shorter == Strings(n - 1) IN
         shorter \cup { Append(v, c) : v \in shorter, c \in ValueChars }

Samples ==
    [ pre : { << >>, <<NL>>, <<"x", ":", " ">> },
      obj : { Render(lang, sp, v) : lang \in { << >>, LangX }, sp \in { << >>, <<" ">> },
                                   v \in Strings(MaxLen) },
      post : { << >>, <<" ", "x", ",", QUOTE>> } ]

(***************************************************************************)
(* handleSubmit, part_000 lines 42-133. It suspends at await fetch (line   *)
(* 54) and at await response.json() (lines 65 and 81). What the page shows *)
(* is [kind, message, minutes]; the text of the commented code is left out.*)
(***************************************************************************)
\* data[name] is truthy
TruthyField(v, name) ==
    /\ <<name>> \in DOMAIN v.fields
    /\ v.fields[<<name>>].t # "null"
    /\ ~(v.fields[<<name>>].t = "string" /\ v.fields[<<name>>].str = << >>)

\* lines 64-79: the Error thrown for a response that is not ok
failure(resp) ==
    IF resp.status = 429
    THEN Shown("error", "Rate limit exceeded",
               IF "Retry-After" \in DOMAIN resp.headers
               THEN Ceil(resp.headers["Retry-After"], 60)
               ELSE 15)
    ELSE IF resp.error # ""
    THEN Shown("error", resp.error, 0)
    ELSE Shown("error", "Request failed with status", 0)

\* lines 81-111: what an ok response shows, or the Error thrown on the way
success(data) ==
    IF data.t # "object" \/ ~TruthyField(data, "commentedCode")
    THEN Shown("error", "No commented code returned from API", 0)
    ELSE IF data.fields[<<"commentedCode">>].t # "string"
    THEN Shown("error", "data.commentedCode.replace is not a function", 0)
    ELSE IF TruthyField(data, "language") /\ data.fields[<<"language">>].t # "string"
    THEN Shown("error", "data.language.toLowerCase is not a function", 0)
    ELSE Shown("code", "", 0)

\* line 108
detectedLang(data) ==
    IF TruthyField(data, "language") THEN "detected" ELSE "plaintext"

catchFinallyRetrying(c, shown) ==
    [c EXCEPT !.pc = "fetch", !.sent = FALSE, !.slot = 0,
              !.inbox = ErrorResponse(0, ""), !.fetches = @ + 1]

\* lines 112-132: the catch block and the finally block
catchFinally(c, shown) ==
    [c EXCEPT !.pc = "idle", !.isLoading = FALSE, !.result = shown,
              !.slot = 0, !.inbox = ErrorResponse(0, "")]

\* lines 110-111 and 129-132
shows(c, shown, data) ==
    IF shown.kind = "error" THEN catchFinally(c, shown)
    ELSE [c EXCEPT !.pc = "idle", !.isLoading = FALSE, !.result = shown,
                   !.language = detectedLang(data),
                   !.slot = 0, !.inbox = ErrorResponse(0, "")]

\* the response of POST call r reaches the fetch that waits for it
Arrived(c, r, answered, resp) ==
    IF c.pc = "fetch" /\ c.slot = r /\ answered
    THEN [c EXCEPT !.inbox = resp, !.slot = 0]
    ELSE c

\* lines 42-59: the click on the button (disabled while loading or without
\* code, line 170), up to the await of fetch
handleSubmit(code) ==
    /\ client.pc = "idle"
    /\ ~client.isLoading
    /\ ~Falsy(code)
    /\ client.submits < MaxSubmits
    /\ client' = [client EXCEPT !.pc = "fetch", !.isLoading = TRUE,
                                !.language = "plaintext",
                                !.result = Shown("analyzing", "", 0),
                                !.timer = [armed |-> TRUE, at |-> now + TIMEOUT_MS],
                                !.body = Obj(code, Str("mentor", 6)),
                                !.sent = FALSE, !.slot = 0,
                                !.inbox = ErrorResponse(0, ""),
                                !.submits = @ + 1, !.fetches = @ + 1]
    /\ UNCHANGED <<rateLimiter, env, now, ticks, req, last, lastCheck, calls,
                   passed, sample, outcome>>

\* the request of the pending fetch reaches the route: POST call r begins
Deliver(r) ==
    /\ client.pc = "fetch"
    /\ ~client.sent
    /\ POSTBegin(r, [forwarded |-> <<"a">>, realIP |-> ""])
    /\ client' = [client EXCEPT !.sent = TRUE, !.posts = @ + 1,
                                !.slot = IF req'[r].pc = "json" THEN r ELSE 0,
                                !.inbox = IF req'[r].pc = "json"
                                          THEN ErrorResponse(0, "")
                                          ELSE last'.resp,
                                !.wire = [@ EXCEPT ![r] = client.body]]

\* POST call r reads the body that was sent to it
ServerBody(r) ==
    /\ POSTBody(r, client.wire[r])
    /\ client' = [Arrived(client, r, req'[r].pc = "idle", last'.resp)
                    EXCEPT !.upstreams = @ + req'[r].upstreamCalls]

\* the provider answers POST call r
ServerFinish(r, upstream) ==
    /\ POSTFinish(r, upstream)
    /\ client' = Arrived(client, r, TRUE, last'.resp)

\* lines 54-62: fetch resolves with the response; the timer is cleared
FetchResolve ==
    /\ client.pc = "fetch"
    /\ client.inbox.status # 0
    /\ client' = [client EXCEPT !.pc = "read", !.timer = NoTimer]
    /\ UNCHANGED <<rateLimiter, env, now, ticks, req, last, lastCheck, calls,
                   passed, sample, outcome>>

\* lines 64-132: response.json() has settled
ReadBody ==
    /\ client.pc = "read"
    /\ client' = IF client.inbox.status = 200
                 THEN shows(client, success(client.inbox.json), client.inbox.json)
                 ELSE catchFinally(client, failure(client.inbox))
    /\ UNCHANGED <<rateLimiter, env, now, ticks, req, last, lastCheck, calls,
                   passed, sample, outcome>>

\* line 50: the timer fires, controller.abort() rejects the pending fetch
\* with an AbortError (lines 115-117). Nothing is sent to the route.
Abort ==
    /\ client.pc = "fetch"
    /\ client.timer.armed
    /\ now >= client.timer.at
    /\ client' = [catchFinally(client, Shown("error", "Request timed out after 60 seconds", 0))
                    EXCEPT !.timer = NoTimer]
    /\ UNCHANGED <<rateLimiter, env, now, ticks, req, last, lastCheck, calls,
                   passed, sample, outcome>>

\* fetch rejects with "Failed to fetch" (lines 120-122) before the timer is
\* due. The timer of line 50 is not cleared, but its controller has no
\* pending fetch any more.
NetworkError ==
    /\ client.pc = "fetch"
    /\ now < client.timer.at
    /\ client' = [catchFinally(client, Shown("error", "Network error", 0))
                    EXCEPT !.timer = NoTimer]
    /\ UNCHANGED <<rateLimiter, env, now, ticks, req, last, lastCheck, calls,
                   passed, sample, outcome>>

\* the clock advances while no timer is pending (Wait is the time that
\* passes while one is)
ClientTick(d) ==
    /\ ~client.timer.armed
    /\ Tick(d)
    /\ UNCHANGED client

\* the time up to the timer's due date passes
Wait ==
    /\ client.timer.armed
    /\ now < client.timer.at
    /\ now' = client.timer.at
    /\ UNCHANGED <<rateLimiter, env, ticks, req, last, lastCheck, calls, passed,
                   sample, outcome, client>>

ClientSteps == {1000}

(***************************************************************************)
(* Spec: the requests of the clients one after the other, over several     *)
(* windows, with few kinds of body and of upstream answer.                 *)
(***************************************************************************)
Init ==
    /\ InitCommon
    /\ env = [GEMINI_API_KEY |-> TRUE, NODE_ENV |-> "production"]
    /\ req = [r \in {1} |-> Idle]
    /\ sample = NoSample
    /\ outcome = NoOutcome

Next ==
    /\ \/ \E r \in DOMAIN req, h \in HeaderInputs : POSTBegin(r, h)
       \/ \E r \in DOMAIN req, b \in FewBodies : POSTBody(r, b)
       \/ \E r \in DOMAIN req, u \in FewUpstreams : POSTFinish(r, u)
       \/ \E d \in Steps : Tick(d)
    /\ UNCHANGED client

Spec == Init /\ [][Next]_vars

(***************************************************************************)
(* SpecConc: NReq requests of one client in flight at once, interleaved at *)
(* the awaits, within one window.                                          *)
(***************************************************************************)
InitConc ==
    /\ InitCommon
    /\ env = [GEMINI_API_KEY |-> TRUE, NODE_ENV |-> "production"]
    /\ req = [r \in 1..NReq |-> Idle]
    /\ sample = NoSample
    /\ outcome = NoOutcome

NextConc ==
    /\ \/ \E r \in DOMAIN req : POSTBegin(r, [forwarded |-> <<"a", "b">>, realIP |-> ""])
       \/ \E r \in DOMAIN req, b \in FewBodies : POSTBody(r, b)
       \/ \E r \in DOMAIN req, u \in FewUpstreams : POSTFinish(r, u)
    /\ UNCHANGED client

SpecConc == InitConc /\ [][NextConc]_vars

(***************************************************************************)
(* SpecIO: one client, one request at a time, every kind of body and of    *)
(* upstream answer, every environment.                                     *)
(***************************************************************************)
InitIO ==
    /\ InitCommon
    /\ env \in [GEMINI_API_KEY : BOOLEAN, NODE_ENV : {"production", "development"}]
    /\ req = [r \in {1} |-> Idle]
    /\ sample = NoSample
    /\ outcome = NoOutcome

NextIO ==
    /\ \/ \E r \in DOMAIN req : POSTBegin(r, [forwarded |-> <<"a">>, realIP |-> ""])
       \/ \E r \in DOMAIN req, b \in Bodies : POSTBody(r, b)
       \/ \E r \in DOMAIN req, u \in Upstreams : POSTFinish(r, u)
    /\ UNCHANGED client

SpecIO == InitIO /\ [][NextIO]_vars

(***************************************************************************)
(* SpecParse: the recovery of lines 339-364 applied to one upstream text,  *)
(* a JSON-like object between two pieces of prose without braces.          *)
(***************************************************************************)
InitParse ==
    /\ InitCommon
    /\ env = [GEMINI_API_KEY |-> TRUE, NODE_ENV |-> "production"]
    /\ req = [r \in {1} |-> Idle]
    /\ sample \in Samples
    /\ outcome = NoOutcome

NextParse == Recover /\ UNCHANGED client

SpecParse == InitParse /\ [][NextParse]_vars

(***************************************************************************)
(* SpecClient: the page and the route together. The page's requests are    *)
(* the only ones; a POST call whose fetch was aborted goes on by itself.   *)
(* The route's own steps, the page's steps, the timer and the passing of   *)
(* time are fair; the provider need not answer, the user need not click,   *)
(* the network need not fail.                                              *)
(***************************************************************************)
InitClient ==
    /\ InitCommon
    /\ env = [GEMINI_API_KEY |-> TRUE, NODE_ENV |-> "production"]
    /\ req = [r \in 1..NReq |-> Idle]
    /\ sample = NoSample
    /\ outcome = NoOutcome

Submit == \E code \in {Str("", 1), Str("", MaxCodeLength + 1)} : handleSubmit(code)

Delivery == \E r \in 1..NReq : Deliver(r)

BodyRead == \E r \in 1..NReq : ServerBody(r)

Answer == \E r \in 1..NReq, u \in FewUpstreams : ServerFinish(r, u)

Clock == \E d \in ClientSteps : ClientTick(d)

NextClient ==
    \/ Submit
    \/ Delivery
    \/ BodyRead
    \/ Answer
    \/ FetchResolve
    \/ ReadBody
    \/ Abort
    \/ NetworkError
    \/ Clock
    \/ Wait

SpecClient ==
    /\ InitClient
    /\ [][NextClient]_vars
    /\ WF_vars(Delivery)
    /\ WF_vars(BodyRead)
    /\ WF_vars(FetchResolve)
    /\ WF_vars(ReadBody)
    /\ WF_vars(Abort)
    /\ WF_vars(Wait)

(***************************************************************************)
(* The rate limiter.                                                       *)
(***************************************************************************)

\* C1: the k-th call of checkRateLimit for a client inside one window is
\* allowed with remaining = 10 - k for k = 1..10; the 11th and every later
\* call inside the window is denied with remaining = 0, and POST answers
\* it with 429.
C1_KthCallInWindow ==
    lastCheck.k >= 1 =>
        IF lastCheck.k <= RATE_LIMIT
        THEN /\ lastCheck.result.allowed
             /\ lastCheck.result.remaining = RATE_LIMIT - lastCheck.k
        ELSE /\ ~lastCheck.result.allowed
             /\ lastCheck.result.remaining = 0
             /\ last.resp.status = 429
             /\ last.ip = lastCheck.ip

\* a 12th call inside the window has been denied with 429
C1_Witness ==
    /\ lastCheck.k = RATE_LIMIT + 2
    /\ ~lastCheck.result.allowed
    /\ last.resp.status = 429

\* C2: a call for a client without a window, or with now > resetTime, stores
\* {count: 1, resetTime: now + 15 minutes} and returns allowed, remaining 9,
\* whatever the old count; a call at now = resetTime is judged against the
\* old window.
C2_FreshWindow ==
    LET w == rateLimiter[lastCheck.ip] IN
    /\ (lastCheck.k >= 1 /\ (~lastCheck.had \/ lastCheck.at > lastCheck.oldReset)) =>
          /\ w = [count |-> 1, resetTime |-> lastCheck.at + 15 * 60 * 1000]
          /\ lastCheck.result =
               [allowed |-> TRUE, remaining |-> 9, resetTime |-> w.resetTime]
    /\ (lastCheck.had /\ lastCheck.at = lastCheck.oldReset) =>
          /\ w.resetTime = lastCheck.oldReset
          /\ lastCheck.result.resetTime = lastCheck.oldReset
          /\ IF lastCheck.oldCount >= RATE_LIMIT
             THEN ~lastCheck.result.allowed /\ w.count = lastCheck.oldCount
             ELSE lastCheck.result.allowed /\ w.count = lastCheck.oldCount + 1

\* a client whose window was full starts a fresh window once now > resetTime
C2_Witness ==
    /\ lastCheck.had
    /\ lastCheck.oldCount = RATE_LIMIT
    /\ lastCheck.at > lastCheck.oldReset
    /\ lastCheck.result.allowed
    /\ rateLimiter[lastCheck.ip].count = 1

\* a call at now = resetTime of a full window is denied
C2_WitnessAtReset ==
    /\ lastCheck.had
    /\ lastCheck.at = lastCheck.oldReset
    /\ lastCheck.oldCount = RATE_LIMIT
    /\ ~lastCheck.result.allowed

\* C3: with several POST calls of one client in flight at once, interleaved
\* at the awaits, the number of calls that pass the rate-limit check within
\* one window never exceeds 10 (and is the stored count).
C3_PassedWithinLimit ==
    \A c \in Clients :
        /\ passed[c] <= RATE_LIMIT
        /\ c \in DOMAIN rateLimiter => passed[c] = rateLimiter[c].count

\* the 10th request is still suspended at request.json(), another one at
\* generateContent, and the window is full
C3_Witness ==
    /\ passed["a"] = RATE_LIMIT
    /\ \E r \in DOMAIN req : req[r].pc = "json" /\ req[r].rateCheck.remaining = 0
    /\ \E r \in DOMAIN req : req[r].pc = "generate"

(***************************************************************************)
(* The handler's answers.                                                  *)
(***************************************************************************)
Answered == last.resp.status # 0

\* the request was answered by the handler's own rate limiter
Limited == last.resp.status = 429 /\ last.resp.error = "Rate limit exceeded"

\* C4: a request rejected by the rate limiter (429), by validation (400,
\* also for a code of 3001 characters) or for the missing API key (500) has
\* invoked the provider zero times, and a request reaches the provider only
\* with a valid body and a configured key.
C4_NoUpstreamOnRejection ==
    /\ ( \/ Limited
         \/ last.resp.status = 400
         \/ last.resp.status = 500 /\ last.resp.error = "API key not configured" )
       => last.upstreamCalls = 0 /\ last.upstream.kind = "none"
    /\ \A r \in DOMAIN req :
         req[r].upstreamCalls > 0 =>
            /\ env.GEMINI_API_KEY
            /\ req[r].body.code.t = "string"
            /\ req[r].body.code.len \in 1..3000
            /\ req[r].body.personality.t = "string"
            /\ req[r].body.personality.len > 0

\* a code of 3001 characters has been rejected with 400
C4_Witness ==
    /\ last.resp.status = 400
    /\ last.body.code.t = "string" /\ last.body.code.len = 3001
    /\ last.body.personality.key = "mentor"
    /\ last.upstreamCalls = 0

\* the personality is a non-empty string outside the five keys
UnknownPersonality(body) ==
    /\ body.kind = "object"
    /\ body.personality.t = "string"
    /\ body.personality.len > 0
    /\ body.personality.key \notin
          {"mentor", "minimalist", "intern", "security", "performance"}

\* C5: a request whose personality is a non-empty string that is not one of
\* the five keys fails with status 400; no prompt is built and no upstream
\* call is made for it.
C5_UnknownPersonalityRejected ==
    /\ (Answered /\ UnknownPersonality(last.body)) =>
          /\ last.resp.status = 400
          /\ last.upstreamCalls = 0
          /\ last.prompt = NoPrompt
    /\ \A r \in DOMAIN req : req[r].pc = "generate" => ~UnknownPersonality(req[r].body)

\* the body is missing or invalid
InvalidBody(body) ==
    \/ body.kind \in {"unparseable", "null", "primitive", "array"}
    \/ /\ body.kind = "object"
       /\ \/ body.code.t # "string"
          \/ body.code.len = 0
          \/ body.code.len > 3000
          \/ body.personality.t # "string"
          \/ body.personality.len = 0

\* C6: every request that passes the rate limiter with a missing or invalid
\* body (unparseable, null or no object, code or personality absent, empty
\* or no string, code longer than 3000) is answered with 400, never 5xx.
C6_InvalidBodyIs400 ==
    (Answered /\ InvalidBody(last.body)) => last.resp.status = 400

\* C7: every response with status 429 carries X-RateLimit-Limit,
\* X-RateLimit-Remaining, X-RateLimit-Reset and Retry-After.
C7_Every429HasHeaders ==
    last.resp.status = 429 =>
        {"X-RateLimit-Limit", "X-RateLimit-Remaining", "X-RateLimit-Reset",
         "Retry-After"} \subseteq DOMAIN last.resp.headers

\* the provider's error speaks of overload only, of quota only
Overload(u) ==
    /\ u.kind = "throw" /\ u.err.isError
    /\ u.err.marks # {} /\ u.err.marks \subseteq {"503", "overloaded"}

Quota(u) ==
    /\ u.kind = "throw" /\ u.err.isError
    /\ u.err.marks # {} /\ u.err.marks \subseteq {"429", "quota"}

\* the provider's text is not recoverable as {language, commentedCode}
Unrecoverable(u) == u.kind = "text" /\ ~recoverResult(u.text).ok

\* the provider threw something the catch block has no class for
Unclassified(u) ==
    u.kind = "throw" /\ (~u.err.isError \/ u.err.marks = {})

\* C8: after the upstream call, provider overload is answered 503, provider
\* quota 429, and output not recoverable as the expected shape 502 (also
\* JSON without a non-empty commentedCode); 500 only for unclassified errors.
C8_FailureClasses ==
    (Answered /\ last.upstreamCalls = 1) =>
        /\ Overload(last.upstream) => last.resp.status = 503
        /\ Quota(last.upstream) => last.resp.status = 429
        /\ Unrecoverable(last.upstream) => last.resp.status = 502
        /\ last.resp.status = 500 => Unclassified(last.upstream)

\* s with every raw newline inside a string literal written as \n
RECURSIVE EscapeRawNewlines(_, _, _, _)
EscapeRawNewlines(s, i, inString, acc) ==
    IF i > Len(s) THEN acc
    ELSE IF inString /\ s[i] = BSL /\ i < Len(s)
    THEN EscapeRawNewlines(s, i + 2, TRUE, acc \o <<s[i], s[i + 1]>>)
    ELSE IF s[i] = QUOTE
    THEN EscapeRawNewlines(s, i + 1, ~inString, Append(acc, QUOTE))
    ELSE IF inString /\ s[i] = NL
    THEN EscapeRawNewlines(s, i + 1, TRUE, acc \o <<BSL, "n">>)
    ELSE EscapeRawNewlines(s, i + 1, inString, Append(acc, s[i]))

\* a JSON object with a non-empty commentedCode, except for raw newlines
\* inside a string
RawNewlineOnly(text) ==
    /\ ~JSONparse(text).ok
    /\ recoverResult(EscapeRawNewlines(text, 1, FALSE, << >>)).ok
    /\ JSONparse(EscapeRawNewlines(text, 1, FALSE, << >>)).ok

\* C9: upstream output that is a JSON object except for a raw newline inside
\* the commentedCode string yields a parsed result and a 200 response.
C9_RawNewlineRepaired ==
    (Answered /\ last.upstream.kind = "text" /\ RawNewlineOnly(last.upstream.text))
        => last.resp.status = 200

(***************************************************************************)
(* The recovery of the upstream text.                                      *)
(***************************************************************************)

StringField(v, name) ==
    /\ <<name>> \in DOMAIN v.fields
    /\ v.fields[<<name>>].t = "string"

\* C11: every 200 response body is an object {language, commentedCode} whose
\* commentedCode is a non-empty string and whose language is a string,
\* "plaintext" when the parsed upstream object has no language or one that
\* is no string; a parsed object with an absent or empty commentedCode
\* never produces a 200.
C11_OkBodyShape ==
    /\ last.resp.status = 200 =>
          /\ last.resp.json.t = "object"
          /\ StringField(last.resp.json, "commentedCode")
          /\ last.resp.json.fields[<<"commentedCode">>].str # << >>
          /\ StringField(last.resp.json, "language")
          /\ ~StringField(parseResponseText(last.upstream.text).v, "language")
                => last.resp.json.fields[<<"language">>].str = <<"plaintext">>
    /\ ( /\ Answered
         /\ last.upstream.kind = "text"
         /\ parseResponseText(last.upstream.text).ok
         /\ parseResponseText(last.upstream.text).v.t = "object"
         /\ NoCommentedCode(parseResponseText(last.upstream.text).v) )
       => last.resp.status # 200

(***************************************************************************)
(* The page and the route together.                                        *)
(***************************************************************************)

\* the page leaves its loading state: the timer of line 50 ends the wait
ClientLeavesLoading == client.isLoading ~> ~client.isLoading

\* C12: a submitted request cannot stay pending on the upstream call: a
\* call that has not completed 60 seconds after it started is aborted and
\* the request fails, so no POST call waits for the provider longer than
\* that, and a page that is not loading any more has a final result.
C12_UpstreamBounded ==
    /\ \A r \in 1..NReq :
          req[r].pc = "generate" => now - req[r].since <= TIMEOUT_MS
    /\ ~client.isLoading => client.result.kind \in {"placeholder", "code", "error"}

\* C13: every POST call invokes the provider at most once and every
\* submission calls the endpoint at most once; after a failure neither the
\* route nor handleSubmit issues another call, and the failure is final.
C13_AtMostOnce ==
    /\ \A r \in 1..NReq : req[r].upstreamCalls <= 1
    /\ last.upstreamCalls <= 1
    /\ client.upstreams <= client.posts
    /\ client.posts <= client.fetches
    /\ client.fetches = client.submits
    /\ (client.result.kind = "error" /\ ~client.isLoading) =>
          /\ client.pc = "idle"
          /\ ~client.timer.armed
          /\ client.slot = 0

\* the one submission has failed with the route's 503 after one fetch, one
\* POST call and one provider call
C13_Witness ==
    /\ client.result = Shown("error", "AI service is temporarily overloaded", 0)
    /\ ~client.isLoading
    /\ client.submits = 1 /\ client.fetches = 1
    /\ client.posts = 1 /\ client.upstreams = 1
    /\ last.resp.status = 503 /\ last.upstreamCalls = 1

(***************************************************************************)
(* What the responses disclose.                                            *)
(***************************************************************************)
FixedMessages ==
    { "Rate limit exceeded", "Missing code or personality", "Code snippet too long",
      "Invalid input format", "API key not configured", "API quota exceeded",
      "AI service is temporarily overloaded", "AI returned invalid response format",
      "An error occurred while processing your request" }

\* a provider answer that ends in the same failure class gets the same response
SameAnswer(resp, rec) ==
    (~rec.ok /\ CatchResponse(rec.error).status = resp.status)
        => CatchResponse(rec.error) = resp

\* C14: the body of a non-200 response does not depend on the provider's
\* error text or output: every provider answer of the same failure class
\* gets the same status and body, a message from a fixed set (apart from
\* the minutes of the rate-limit message).
C14_BodyIndependent ==
    (Answered /\ last.resp.status # 200) =>
        /\ last.resp.error \in FixedMessages
        /\ last.resp.json = NoJson
        /\ last.resp.minutes # 0 => last.resp.error = "Rate limit exceeded"
        /\ last.upstream.kind # "none" =>
              \A u \in Upstreams : SameAnswer(last.resp, settle(u))

\* the provider's error said "malformed" and the answer is the 502 that an
\* unparseable provider text gets as well
C14_Witness ==
    /\ last.resp.status = 502
    /\ last.upstream.kind = "throw"
    /\ last.upstream.err.marks = {"malformed"}
    /\ SameAnswer(last.resp, settle(Text(<<"x">>)))
    /\ ~settle(Text(<<"x">>)).ok
    /\ CatchResponse(settle(Text(<<"x">>)).error).status = 502

(***************************************************************************)
(* The rate-limit table.                                                   *)
(***************************************************************************)

\* C15: a call of checkRateLimit that returns allowed = false leaves the
\* client's count and resetTime as they were and returns the stored
\* resetTime: denied calls neither raise the count nor postpone the window.
C15_DeniedChangesNothing ==
    (lastCheck.k >= 1 /\ ~lastCheck.result.allowed) =>
        /\ lastCheck.had
        /\ rateLimiter[lastCheck.ip] =
              [count |-> lastCheck.oldCount, resetTime |-> lastCheck.oldReset]
        /\ lastCheck.result.resetTime = lastCheck.oldReset
        /\ lastCheck.oldCount = RATE_LIMIT

\* a second denied call, made at the window's last millisecond
C15_Witness ==
    /\ lastCheck.k = RATE_LIMIT + 2
    /\ ~lastCheck.result.allowed
    /\ lastCheck.at = lastCheck.oldReset
    /\ rateLimiter[lastCheck.ip].count = RATE_LIMIT
    /\ rateLimiter[lastCheck.ip].resetTime = lastCheck.at

\* C16: in every reachable state each stored window has 1 <= count <= 10,
\* and a window that replaces a client's window has a resetTime strictly
\* greater than the one it replaces.
C16_WindowInvariant ==
    /\ \A ip \in DOMAIN rateLimiter :
          /\ rateLimiter[ip].count >= 1
          /\ rateLimiter[ip].count <= RATE_LIMIT
    /\ ( /\ lastCheck.k >= 1
         /\ lastCheck.had
         /\ rateLimiter[lastCheck.ip].resetTime # lastCheck.oldReset )
       => rateLimiter[lastCheck.ip].resetTime > lastCheck.oldReset

\* a window with one call in it has been replaced one millisecond after
\* its end
C16_Witness ==
    /\ lastCheck.had
    /\ lastCheck.oldCount = 1
    /\ lastCheck.at = lastCheck.oldReset + 1
    /\ rateLimiter[lastCheck.ip] =
          [count |-> 1, resetTime |-> lastCheck.oldReset + 1 + WINDOW_MS]

\* C17: with NODE_ENV = 'production' the handler writes nothing derived
\* from the provider's error or text to the log, on any path.
C17_SilentInProduction ==
    env.NODE_ENV = "production" => last.logs = {}

\* C18: every POST call that passes the rate-limit check has raised the
\* client's count by one, whatever its answer is (400, 500, 429 quota, 502,
\* 503 or 200); a call denied by the limiter raises nothing; so the limiter
\* denies exactly when 10 calls of any outcome have passed in the window.
C18_EveryPassedCallCounts ==
    /\ \A c \in DOMAIN rateLimiter : rateLimiter[c].count = passed[c]
    /\ (Answered /\ ~Limited) =>
          /\ last.rateCheck.allowed
          /\ rateLimiter[last.ip].count >= RATE_LIMIT - last.rateCheck.remaining
    /\ Limited => passed[last.ip] = RATE_LIMIT
    /\ (lastCheck.k >= 1 /\ lastCheck.oldCount = RATE_LIMIT) => ~lastCheck.result.allowed

\* the tenth call of the window, answered with 400, has used the last unit
C18_Witness ==
    /\ last.resp.status = 400
    /\ last.rateCheck.allowed
    /\ last.rateCheck.remaining = 0
    /\ rateLimiter[last.ip].count = RATE_LIMIT
    /\ passed[last.ip] = RATE_LIMIT

=============================================================================
